---- MODULE Spec2Model ----
(***************************************************************************)
(* Model of playlist_art_sync.py: the fuzzy name matcher                   *)
(* (find_matching_playlist), the retrying artwork download                 *)
(* (download_playlist_artwork), the orchestrating loop (sync_artwork) and  *)
(* the entry point (__main__).                                             *)
(*                                                                         *)
(* Strings are sequences of one-character strings.  None is "None".        *)
(***************************************************************************)
EXTENDS Integers, Sequences, FiniteSets, TLC

VARIABLES
    pc,                    \* position of the single thread of control
    env,                   \* environment variables that are set (os.getenv)
    backend,               \* SequenceMatcher implementation fuzzywuzzy imported
    fuzzy_match_threshold, \* self.fuzzy_match_threshold
    apple_playlists,       \* result of get_apple_music_playlists()
    spotify_dict,          \* name -> id mapping, in insertion order
    idx,                   \* position of the for loop in apple_playlists (1-based)
    playlist_name,         \* name argument of find_matching_playlist
    spotify_playlist_id,   \* value returned by find_matching_playlist
    success_count,
    fail_count,
    artwork_url,           \* url argument of download_playlist_artwork
    max_retries,           \* max_retries argument of download_playlist_artwork
    attempt,               \* loop variable of download_playlist_artwork
    artwork,               \* value returned by download_playlist_artwork
    trace,                 \* requests and sleeps made for the current playlist
    item_error,            \* exception caught at line 153 for the current playlist
    uploads,               \* all playlist_upload_cover_image calls of the run
    reported,              \* <<success, failed>> logged by "Sync complete", else << >>
    raised,                \* TRUE once an exception left sync_artwork or __init__
    exit_code              \* process exit status, -1 while running

vars == << pc, env, backend, fuzzy_match_threshold, apple_playlists,
           spotify_dict, idx, playlist_name, spotify_playlist_id,
           success_count, fail_count, artwork_url, max_retries, attempt,
           artwork, trace, item_error, uploads, reported, raised,
           exit_code >>

None == "None"

----------------------------------------------------------------------------
(* Bounds of the model *)

MaxLen == 2          \* longest name handed to the matcher on its own
MaxCand == 2         \* most candidates in a mapping handed to the matcher
MaxRetries == 4      \* largest max_retries handed to the download on its own
MaxApple == 2        \* longest source listing of a run

----------------------------------------------------------------------------
(* Strings *)

Max(a, b) == IF a >= b THEN a ELSE b

SetMax(S) == CHOOSE m \in S : \A n \in S : n <= m

RECURSIVE Pow2(_)
Pow2(n) == IF n = 0 THEN 1 ELSE 2 * Pow2(n - 1)

\* str.lower() on the characters the model uses
LowerChar(c) ==
    CASE c = "A" -> "a"
      [] c = "B" -> "b"
      [] c = "R" -> "r"
      [] c = "T" -> "t"
      [] c = "U" -> "u"
      [] c = "Z" -> "z"
      [] OTHER -> c

\* mutant of lower: the case of the names is kept
lower_identity(s) == s

lower(s) == [k \in 1..Len(s) |-> LowerChar(s[k])]

----------------------------------------------------------------------------
(* fuzz.ratio (fuzzywuzzy 0.18): 100 * SequenceMatcher(None, s1, s2).ratio(), *)
(* rounded.  fuzzywuzzy imports python-Levenshtein's StringMatcher when it    *)
(* is installed and difflib's SequenceMatcher otherwise; both are modelled.   *)

Backends == {"difflib", "levenshtein"}

\* one row of the longest-common-subsequence table: acc[j+1] is the value for
\* the first j characters of b
\* (an intermediate result is bound by a one-element set, x \in {e}, so
\* that it is computed once)
RECURSIVE FillRow(_, _, _, _)
FillRow(c, prev, b, acc) ==
    IF Len(acc) = Len(b) + 1 THEN acc
    ELSE LET j == Len(acc)
         IN  CHOOSE row \in
                 { FillRow(c, prev, b, next) : next \in
                     { Append(acc, IF c = b[j] THEN prev[j] + 1
                                   ELSE Max(prev[j + 1], acc[j])) } } : TRUE

RECURSIVE LcsRows(_, _, _, _)
LcsRows(a, b, i, prev) ==
    IF i > Len(a) THEN prev[Len(b) + 1]
    ELSE CHOOSE n \in
             { LcsRows(a, b, i + 1, row) : row \in
                 { FillRow(a[i], prev, b, <<0>>) } } : TRUE

\* Levenshtein.ratio: (lensum - ldist) / lensum with substitutions costing 2,
\* that is 2 * LCS / lensum; this is the number of matched characters
LevenshteinMatches(a, b) ==
    CHOOSE n \in { LcsRows(s, t, 1, [j \in 1..(Len(t) + 1) |-> 0]) :
                      <<s, t>> \in {<<a, b>>} } : TRUE

\* length of the common run of a[i+1..ahi] and b[j+1..bhi] (0-based i, j)
RECURSIVE CommonLen(_, _, _, _, _, _)
CommonLen(a, b, i, j, ahi, bhi) ==
    IF i < ahi /\ j < bhi /\ a[i + 1] = b[j + 1]
    THEN 1 + CommonLen(a, b, i + 1, j + 1, ahi, bhi)
    ELSE 0

\* difflib.SequenceMatcher.find_longest_match without junk: the longest
\* matching block, the earliest in a, and of those the earliest in b
find_longest_match(a, b, alo, ahi, blo, bhi) ==
    LET Pairs == (alo..(ahi - 1)) \X (blo..(bhi - 1))
        K(p) == CommonLen(a, b, p[1], p[2], ahi, bhi)
        Earlier(p, q) == p[1] < q[1] \/ (p[1] = q[1] /\ p[2] <= q[2])
    IN  CHOOSE m \in
            { IF kmax = 0
              THEN [i |-> alo, j |-> blo, k |-> 0]
              ELSE CHOOSE r \in
                       { [i |-> p[1], j |-> p[2], k |-> kmax] : p \in
                           { q \in longest : \A q2 \in longest : Earlier(q, q2) } } : TRUE
              : <<kmax, longest>> \in
                  { <<n, {p \in Pairs : K(p) = n}>> : n \in
                      { SetMax({K(p) : p \in Pairs} \cup {0}) } } } : TRUE

\* difflib.SequenceMatcher.get_matching_blocks: total size of the blocks
RECURSIVE DifflibMatches(_, _, _, _, _, _)
DifflibMatches(a, b, alo, ahi, blo, bhi) ==
    CHOOSE n \in
        { IF m.k = 0 THEN 0
          ELSE m.k
               + (IF alo < m.i /\ blo < m.j
                  THEN DifflibMatches(a, b, alo, m.i, blo, m.j) ELSE 0)
               + (IF m.i + m.k < ahi /\ m.j + m.k < bhi
                  THEN DifflibMatches(a, b, m.i + m.k, ahi, m.j + m.k, bhi) ELSE 0)
          : m \in { find_longest_match(a, b, alo, ahi, blo, bhi) } } : TRUE

Matches(be, a, b) ==
    IF be = "difflib"
    THEN CHOOSE n \in { DifflibMatches(s, t, 0, Len(s), 0, Len(t)) :
                           <<s, t>> \in {<<a, b>>} } : TRUE
    ELSE LevenshteinMatches(a, b)

\* utils.intr(100 * 2.0 * matches / length): int(round(x)), halves to even
intr(num, den) ==
    LET q == num \div den
        r == num % den
    IN  IF 2 * r > den THEN q + 1
        ELSE IF 2 * r < den THEN q
        ELSE IF q % 2 = 0 THEN q ELSE q + 1

\* fuzz.ratio with its decorators: equal strings score 100, an empty string 0
ratio(be, s1, s2) ==
    IF s1 = s2 THEN 100
    ELSE IF Len(s1) = 0 \/ Len(s2) = 0 THEN 0
    ELSE intr(200 * Matches(be, s1, s2), Len(s1) + Len(s2))

----------------------------------------------------------------------------
(* find_matching_playlist *)

\* line 78
Better(score, best_score, T) == score > best_score /\ score >= T

\* mutant of MatchLoop: only the name is lower-cased, the candidate is not
RECURSIVE MatchLoopNameOnly(_, _, _, _, _, _)
MatchLoopNameOnly(be, T, name, playlists_dict, k, best) ==
    IF k > Len(playlists_dict) THEN best
    ELSE CHOOSE r \in
             { MatchLoopNameOnly(be, T, name, playlists_dict, k + 1,
                                 IF Better(score, best.best_score, T)
                                 THEN [best_match |-> playlists_dict[k].id,
                                       best_score |-> score]
                                 ELSE best) : score \in
                 { ratio(be, lower(name), playlists_dict[k].name) } } : TRUE

\* the for loop: k is the next position of the mapping, best the pair
\* (best_match, best_score) so far
RECURSIVE MatchLoop(_, _, _, _, _, _)
MatchLoop(be, T, name, playlists_dict, k, best) ==
    IF k > Len(playlists_dict) THEN best
    ELSE CHOOSE r \in
             { MatchLoop(be, T, name, playlists_dict, k + 1,
                         IF Better(score, best.best_score, T)
                         THEN [best_match |-> playlists_dict[k].id,
                               best_score |-> score]
                         ELSE best) : score \in
                 { ratio(be, lower(name), lower(playlists_dict[k].name)) } } : TRUE

find_matching_playlist(be, T, name, playlists_dict) ==
    MatchLoop(be, T, name, playlists_dict, 1,
              [best_match |-> None, best_score |-> 0]).best_match

----------------------------------------------------------------------------
(* Inputs *)

DefaultThreshold == 85     \* fuzzy_match_threshold: int = 85
DefaultMaxRetries == 3     \* max_retries: int = 3

Alphabet == {"a", "A", "b"}
Strings(n) == UNION {[1..k -> Alphabet] : k \in 0..n}

Thresholds == {0, 1, 50, 67, 85, 100}

Ids == <<"sp1", "sp2", "sp3", "sp4">>

RoadTrip == <<"R", "o", "a", "d", " ", "T", "r", "i", "p">>
road_trip == <<"r", "o", "a", "d", " ", "t", "r", "i", "p">>
road_trips == <<"r", "o", "a", "d", " ", "t", "r", "i", "p", "s">>
road == <<"r", "o", "a", "d">>
SpaceRoadTrip == <<" ", "R", "o", "a", "d", " ", "T", "r", "i", "p">>
ZzzUnrelated == <<"Z", "z", "z", " ", "U", "n", "r", "e", "l", "a", "t", "e", "d">>

\* candidate names of a mapping handed to the matcher on its own
CandNames == {<<"a">>, <<"b">>, <<"a", "b">>, <<"A", "b">>}

\* playlist['items'] of a target listing: the k-th playlist has id Ids[k]
Items(names) == [k \in 1..Len(names) |-> [name |-> names[k], id |-> Ids[k]]]

\* {playlist['name']: playlist['id'] for playlist in items}: a repeated name
\* keeps its first position and takes the last id
RECURSIVE DictFromItems(_, _, _)
DictFromItems(items, k, d) ==
    IF k > Len(items) THEN d
    ELSE LET it == items[k]
             Known == \E p \in 1..Len(d) : d[p].name = it.name
         IN  DictFromItems(items, k + 1,
                 IF Known
                 THEN [p \in 1..Len(d) |-> IF d[p].name = it.name THEN it ELSE d[p]]
                 ELSE Append(d, it))

SeqsUpTo(S, n) == UNION {[1..k -> S] : k \in 0..n}

IsInjective(f) == \A p, q \in DOMAIN f : f[p] = f[q] => p = q

\* names handed to the matcher on its own: every short string and the
\* playlist names of the end-to-end scenarios
MatchNames == Strings(MaxLen) \cup {RoadTrip, SpaceRoadTrip, road_trip}

\* mappings with at most MaxCand distinct candidate names, and the target
\* mapping of the end-to-end scenarios
Dicts ==
    {DictFromItems(Items(names), 1, <<>>) :
        names \in {f \in SeqsUpTo(CandNames, MaxCand) : IsInjective(f)}
                  \cup {<<road_trip>>}}

Urls == {"url1", "url2", None}

\* a source playlist: artwork_url is a URL, None, or "KeyError" when
\* apple_playlist['artwork']['url'] does not exist
ApplePlaylists ==
    { [name |-> RoadTrip, artwork_url |-> "url1"],
      [name |-> ZzzUnrelated, artwork_url |-> "url1"],
      [name |-> RoadTrip, artwork_url |-> None],
      [name |-> RoadTrip, artwork_url |-> "KeyError"] }

\* get_apple_music_playlists(): an ordered listing, or an exception
get_apple_music_playlists ==
    {[raises |-> FALSE, value |-> l] : l \in SeqsUpTo(ApplePlaylists, MaxApple)}
    \cup {[raises |-> TRUE, value |-> <<>>]}

\* get_spotify_playlists()['items']: a listing, or an exception
get_spotify_playlists ==
    {[raises |-> FALSE, value |-> Items(names)] :
        names \in { <<>>, <<road_trip>>, <<RoadTrip, road_trip>>,
                    <<road, road_trips>>, <<road_trip, road_trip>> }}
    \cup {[raises |-> TRUE, value |-> <<>>]}

AppleEnv == {"APPLE_KEY_ID", "APPLE_TEAM_ID", "APPLE_SECRET_KEY"}

\* what one request of the download can do: "ok" is a 2xx response that
\* Image.open accepts, "transient" a RequestException, "decode" any other
\* exception.  requests.get(None) raises MissingSchema, a RequestException.
Outcomes(url) == IF url = None THEN {"transient"} ELSE {"ok", "transient", "decode"}

RequestEv(res) == [ev |-> "request", res |-> res, secs |-> 0]
SleepEv(secs) == [ev |-> "sleep", res |-> "", secs |-> secs]

----------------------------------------------------------------------------
(* download_playlist_artwork, one loop iteration at a time *)

\* mutant of LoopContinues: one attempt too few
LoopContinuesShort(a, m) == a < m - 1

\* line 97: for attempt in range(max_retries)
LoopContinues(a, m) == a < m

\* mutant of download_attempt: every exception is retried
download_attempt_retry_any(res, a, m) ==
    IF res = "ok"
    THEN [pc |-> "dl_ret", attempt |-> a, artwork |-> "image",
          events |-> <<RequestEv(res)>>]
    ELSE [pc |-> "dl_loop", attempt |-> a + 1, artwork |-> None,
          events |-> IF a < m - 1
                     THEN <<RequestEv(res), SleepEv(Pow2(a))>>
                     ELSE <<RequestEv(res)>>]

\* mutant of download_attempt: a successful attempt does not return
download_attempt_no_return(res, a, m) ==
    IF res = "ok"
    THEN [pc |-> "dl_loop", attempt |-> a + 1, artwork |-> "image",
          events |-> <<RequestEv(res)>>]
    ELSE IF res = "transient"
    THEN [pc |-> "dl_loop", attempt |-> a + 1, artwork |-> None,
          events |-> IF a < m - 1
                     THEN <<RequestEv(res), SleepEv(Pow2(a))>>
                     ELSE <<RequestEv(res)>>]
    ELSE [pc |-> "dl_ret", attempt |-> a, artwork |-> None,
          events |-> <<RequestEv(res)>>]

\* mutant of download_attempt: it also sleeps after the last allowed attempt
download_attempt_sleep_last(res, a, m) ==
    IF res = "ok"
    THEN [pc |-> "dl_ret", attempt |-> a, artwork |-> "image",
          events |-> <<RequestEv(res)>>]
    ELSE IF res = "transient"
    THEN [pc |-> "dl_loop", attempt |-> a + 1, artwork |-> None,
          events |-> <<RequestEv(res), SleepEv(Pow2(a))>>]
    ELSE [pc |-> "dl_ret", attempt |-> a, artwork |-> None,
          events |-> <<RequestEv(res)>>]

\* lines 98-109: one pass of the loop body with attempt = a, max_retries = m
\* and a request that does res
download_attempt(res, a, m) ==
    IF res = "ok"
    THEN [pc |-> "dl_ret", attempt |-> a, artwork |-> "image",
          events |-> <<RequestEv(res)>>]
    ELSE IF res = "transient"
    THEN [pc |-> "dl_loop", attempt |-> a + 1, artwork |-> None,
          events |-> IF a < m - 1
                     THEN <<RequestEv(res), SleepEv(Pow2(a))>>
                     ELSE <<RequestEv(res)>>]
    ELSE [pc |-> "dl_ret", attempt |-> a, artwork |-> None,
          events |-> <<RequestEv(res)>>]

DlRequest ==
    /\ pc = "dl_loop"
    /\ LoopContinues(attempt, max_retries)
    /\ \E res \in Outcomes(artwork_url) :
          LET r == download_attempt(res, attempt, max_retries)
          IN  /\ pc' = r.pc
              /\ attempt' = r.attempt
              /\ artwork' = r.artwork
              /\ trace' = trace \o r.events
    /\ UNCHANGED << env, backend, fuzzy_match_threshold, apple_playlists,
                    spotify_dict, idx, playlist_name, spotify_playlist_id,
                    success_count, fail_count, artwork_url, max_retries,
                    item_error, uploads, reported, raised, exit_code >>

\* line 110: the loop is exhausted
DlExhausted ==
    /\ pc = "dl_loop"
    /\ ~LoopContinues(attempt, max_retries)
    /\ artwork' = None
    /\ pc' = "dl_ret"
    /\ UNCHANGED << env, backend, fuzzy_match_threshold, apple_playlists,
                    spotify_dict, idx, playlist_name, spotify_playlist_id,
                    success_count, fail_count, artwork_url, max_retries,
                    attempt, trace, item_error, uploads, reported, raised, exit_code >>

----------------------------------------------------------------------------
(* __main__, __init__ and sync_artwork *)

\* mutant of all_credentials: any() instead of all()
any_credentials(e) == AppleEnv \cap e # {}

\* line 53: all([key_id, team_id, secret_key])
all_credentials(e) == AppleEnv \subseteq e

\* lines 166, 21-60: PlaylistArtSync() builds both clients; either can raise,
\* and the Apple client raises when a credential is missing
Construct ==
    /\ pc = "main"
    /\ \E spotify_ok, apple_ok \in BOOLEAN :
          IF spotify_ok /\ all_credentials(env) /\ apple_ok
          THEN /\ pc' = "constructed"
               /\ UNCHANGED raised
          ELSE /\ pc' = "main_except"
               /\ raised' = TRUE
    /\ fuzzy_match_threshold' = DefaultThreshold
    /\ UNCHANGED << env, backend, apple_playlists, spotify_dict, idx,
                    playlist_name, spotify_playlist_id, success_count,
                    fail_count, artwork_url, max_retries, attempt, artwork,
                    trace, item_error, uploads, reported, exit_code >>

\* lines 167, 114-115
FetchApple ==
    /\ pc = "constructed"
    /\ \E r \in get_apple_music_playlists :
          IF r.raises
          THEN /\ pc' = "sync_except"
               /\ UNCHANGED apple_playlists
          ELSE /\ pc' = "fetch_spotify"
               /\ apple_playlists' = r.value
    /\ UNCHANGED << env, backend, fuzzy_match_threshold, spotify_dict, idx,
                    playlist_name, spotify_playlist_id, success_count,
                    fail_count, artwork_url, max_retries, attempt, artwork,
                    trace, item_error, uploads, reported, raised, exit_code >>

\* lines 116-124
FetchSpotify ==
    /\ pc = "fetch_spotify"
    /\ \E r \in get_spotify_playlists :
          IF r.raises
          THEN /\ pc' = "sync_except"
               /\ UNCHANGED << spotify_dict, success_count, fail_count, idx >>
          ELSE /\ pc' = "loop"
               /\ spotify_dict' = DictFromItems(r.value, 1, <<>>)
               /\ success_count' = 0
               /\ fail_count' = 0
               /\ idx' = 1
    /\ UNCHANGED << env, backend, fuzzy_match_threshold, apple_playlists,
                    playlist_name, spotify_playlist_id, artwork_url,
                    max_retries, attempt, artwork, trace, item_error, uploads, reported,
                    raised, exit_code >>

\* mutant of not_matched: the check of the matcher's result is missing
not_matched_never(id) == FALSE

\* line 131: if not spotify_playlist_id
not_matched(id) == id = None

\* mutant of no_artwork: the check of the download's result is missing
no_artwork_never(a) == FALSE

\* line 139: if not artwork
no_artwork(a) == a = None

\* mutant of current: the listing is walked from its end
current_reversed(playlists, i) == playlists[Len(playlists) + 1 - i]

\* line 126: for apple_playlist in apple_playlists, at the i-th iteration
current(playlists, i) == playlists[i]

\* mutant of ItemMatch: the artwork URL is read outside the inner try
ItemMatchUnprotected ==
    /\ pc = "loop"
    /\ idx <= Len(apple_playlists)
    /\ \E apple_playlist \in {current(apple_playlists, idx)} :
       \E id \in {find_matching_playlist(backend, fuzzy_match_threshold,
                                          apple_playlist.name, spotify_dict)} :
           /\ playlist_name' = apple_playlist.name
           /\ spotify_playlist_id' = id
           /\ trace' = <<>>
           /\ IF not_matched(id)
              THEN /\ fail_count' = fail_count + 1
                   /\ idx' = idx + 1
                   /\ item_error' = None
                   /\ UNCHANGED << pc, artwork_url, max_retries, attempt, artwork >>
              ELSE IF apple_playlist.artwork_url = "KeyError"
              THEN /\ pc' = "sync_except"
                   /\ item_error' = "KeyError"
                   /\ UNCHANGED << fail_count, idx, artwork_url, max_retries,
                                   attempt, artwork >>
              ELSE /\ artwork_url' = apple_playlist.artwork_url
                   /\ max_retries' = DefaultMaxRetries
                   /\ attempt' = 0
                   /\ artwork' = None
                   /\ item_error' = None
                   /\ pc' = "dl_loop"
                   /\ UNCHANGED << fail_count, idx >>
    /\ UNCHANGED << env, backend, fuzzy_match_threshold, apple_playlists,
                    spotify_dict, success_count, uploads, reported, raised,
                    exit_code >>

\* lines 126-137: the next playlist is matched; without a match, or without
\* an artwork URL (KeyError, caught at 153-156), it is counted as failed,
\* otherwise download_playlist_artwork is called with the default max_retries
ItemMatch ==
    /\ pc = "loop"
    /\ idx <= Len(apple_playlists)
    /\ \E apple_playlist \in {current(apple_playlists, idx)} :
       \E id \in {find_matching_playlist(backend, fuzzy_match_threshold,
                                          apple_playlist.name, spotify_dict)} :
           /\ playlist_name' = apple_playlist.name
           /\ spotify_playlist_id' = id
           /\ trace' = <<>>
           /\ IF not_matched(id)
              THEN /\ fail_count' = fail_count + 1
                   /\ idx' = idx + 1
                   /\ item_error' = None
                   /\ UNCHANGED << pc, artwork_url, max_retries, attempt, artwork >>
              ELSE IF apple_playlist.artwork_url = "KeyError"
              THEN /\ fail_count' = fail_count + 1
                   /\ idx' = idx + 1
                   /\ item_error' = "KeyError"
                   /\ UNCHANGED << pc, artwork_url, max_retries, attempt, artwork >>
              ELSE /\ artwork_url' = apple_playlist.artwork_url
                   /\ max_retries' = DefaultMaxRetries
                   /\ attempt' = 0
                   /\ artwork' = None
                   /\ item_error' = None
                   /\ pc' = "dl_loop"
                   /\ UNCHANGED << fail_count, idx >>
    /\ UNCHANGED << env, backend, fuzzy_match_threshold, apple_playlists,
                    spotify_dict, success_count, uploads, reported, raised,
                    exit_code >>

\* mutant of publish_step: the except clause does not count the failure
publish_step_uncounted(art, res, s, f) ==
    IF no_artwork(art)
    THEN [called |-> FALSE, error |-> None, success_count |-> s,
          fail_count |-> f + 1, pc |-> "loop"]
    ELSE IF res = "convert_raises"
    THEN [called |-> FALSE, error |-> "convert", success_count |-> s,
          fail_count |-> f, pc |-> "loop"]
    ELSE IF res = "upload_raises"
    THEN [called |-> TRUE, error |-> "upload", success_count |-> s,
          fail_count |-> f, pc |-> "loop"]
    ELSE [called |-> TRUE, error |-> None, success_count |-> s + 1,
          fail_count |-> f, pc |-> "loop"]

\* mutant of publish_step: the success is counted before the upload is made
publish_step_counted_early(art, res, s, f) ==
    IF no_artwork(art)
    THEN [called |-> FALSE, error |-> None, success_count |-> s,
          fail_count |-> f + 1, pc |-> "loop"]
    ELSE IF res = "convert_raises"
    THEN [called |-> FALSE, error |-> "convert", success_count |-> s,
          fail_count |-> f + 1, pc |-> "loop"]
    ELSE IF res = "upload_raises"
    THEN [called |-> TRUE, error |-> "upload", success_count |-> s + 1,
          fail_count |-> f + 1, pc |-> "loop"]
    ELSE [called |-> TRUE, error |-> None, success_count |-> s + 1,
          fail_count |-> f, pc |-> "loop"]

\* mutant of publish_step: conversion and upload are outside the inner try
publish_step_unprotected(art, res, s, f) ==
    IF no_artwork(art)
    THEN [called |-> FALSE, error |-> None, success_count |-> s,
          fail_count |-> f + 1, pc |-> "loop"]
    ELSE IF res = "convert_raises"
    THEN [called |-> FALSE, error |-> "convert", success_count |-> s,
          fail_count |-> f, pc |-> "sync_except"]
    ELSE IF res = "upload_raises"
    THEN [called |-> TRUE, error |-> "upload", success_count |-> s,
          fail_count |-> f, pc |-> "sync_except"]
    ELSE [called |-> TRUE, error |-> None, success_count |-> s + 1,
          fail_count |-> f, pc |-> "loop"]

\* lines 139-156 for a playlist whose download returned art: res is what the
\* conversion and the upload do; s and f are the counters.  The result tells
\* whether the upload was called, the exception caught, the counters and
\* where control goes
publish_step(art, res, s, f) ==
    IF no_artwork(art)
    THEN [called |-> FALSE, error |-> None, success_count |-> s,
          fail_count |-> f + 1, pc |-> "loop"]
    ELSE IF res = "convert_raises"
    THEN [called |-> FALSE, error |-> "convert", success_count |-> s,
          fail_count |-> f + 1, pc |-> "loop"]
    ELSE IF res = "upload_raises"
    THEN [called |-> TRUE, error |-> "upload", success_count |-> s,
          fail_count |-> f + 1, pc |-> "loop"]
    ELSE [called |-> TRUE, error |-> None, success_count |-> s + 1,
          fail_count |-> f, pc |-> "loop"]

\* what the conversion and the upload can do with what the download returned
PublishOutcomes(art) ==
    IF art = None THEN {"skipped"} ELSE {"convert_raises", "upload_raises", "ok"}

ItemPublish ==
    /\ pc = "dl_ret"
    /\ \E res \in PublishOutcomes(artwork) :
          LET r == publish_step(artwork, res, success_count, fail_count)
          IN  /\ uploads' = IF r.called
                            THEN Append(uploads, [item |-> idx,
                                                  id |-> spotify_playlist_id,
                                                  ok |-> r.error = None])
                            ELSE uploads
              /\ item_error' = r.error
              /\ success_count' = r.success_count
              /\ fail_count' = r.fail_count
              /\ pc' = r.pc
              /\ idx' = IF r.pc = "loop" THEN idx + 1 ELSE idx
    /\ UNCHANGED << env, backend, fuzzy_match_threshold, apple_playlists,
                    spotify_dict, playlist_name, spotify_playlist_id,
                    artwork_url, max_retries, attempt, artwork, trace,
                    reported, raised, exit_code >>

\* mutant of Summary: the end of the listing is tested one position late
SummaryLate ==
    /\ pc = "loop"
    /\ idx > Len(apple_playlists) + 1
    /\ reported' = << success_count, fail_count >>
    /\ pc' = "returned"
    /\ UNCHANGED << env, backend, fuzzy_match_threshold, apple_playlists,
                    spotify_dict, idx, playlist_name, spotify_playlist_id,
                    success_count, fail_count, artwork_url, max_retries,
                    attempt, artwork, trace, item_error, uploads, raised,
                    exit_code >>

\* line 158 and the return of sync_artwork
Summary ==
    /\ pc = "loop"
    /\ idx > Len(apple_playlists)
    /\ reported' = << success_count, fail_count >>
    /\ pc' = "returned"
    /\ UNCHANGED << env, backend, fuzzy_match_threshold, apple_playlists,
                    spotify_dict, idx, playlist_name, spotify_playlist_id,
                    success_count, fail_count, artwork_url, max_retries,
                    attempt, artwork, trace, item_error, uploads, raised,
                    exit_code >>

\* mutant of SyncExcept: the outer except logs and does not re-raise
SyncExceptSwallow ==
    /\ pc = "sync_except"
    /\ pc' = "returned"
    /\ UNCHANGED << env, backend, fuzzy_match_threshold, apple_playlists,
                    spotify_dict, idx, playlist_name, spotify_playlist_id,
                    success_count, fail_count, artwork_url, max_retries,
                    attempt, artwork, trace, item_error, uploads, reported,
                    raised, exit_code >>

\* lines 160-162: the outer except logs and re-raises
SyncExcept ==
    /\ pc = "sync_except"
    /\ raised' = TRUE
    /\ pc' = "main_except"
    /\ UNCHANGED << env, backend, fuzzy_match_threshold, apple_playlists,
                    spotify_dict, idx, playlist_name, spotify_playlist_id,
                    success_count, fail_count, artwork_url, max_retries,
                    attempt, artwork, trace, item_error, uploads, reported, exit_code >>

\* lines 168-169: __main__ logs the exception; the script then ends normally
MainExcept ==
    /\ pc = "main_except"
    /\ exit_code' = 0
    /\ pc' = "exit"
    /\ UNCHANGED << env, backend, fuzzy_match_threshold, apple_playlists,
                    spotify_dict, idx, playlist_name, spotify_playlist_id,
                    success_count, fail_count, artwork_url, max_retries,
                    attempt, artwork, trace, item_error, uploads, reported, raised >>

\* the script ends after sync_artwork returned
MainExit ==
    /\ pc = "returned"
    /\ exit_code' = 0
    /\ pc' = "exit"
    /\ UNCHANGED << env, backend, fuzzy_match_threshold, apple_playlists,
                    spotify_dict, idx, playlist_name, spotify_playlist_id,
                    success_count, fail_count, artwork_url, max_retries,
                    attempt, artwork, trace, item_error, uploads, reported, raised >>

----------------------------------------------------------------------------
(* The program: python playlist_art_sync.py *)

Init ==
    /\ pc = "main"
    /\ env \in SUBSET AppleEnv
    /\ backend \in Backends
    /\ fuzzy_match_threshold = DefaultThreshold
    /\ apple_playlists = <<>>
    /\ spotify_dict = <<>>
    /\ idx = 0
    /\ playlist_name = <<>>
    /\ spotify_playlist_id = None
    /\ success_count = 0
    /\ fail_count = 0
    /\ artwork_url = None
    /\ max_retries = DefaultMaxRetries
    /\ attempt = 0
    /\ artwork = None
    /\ trace = <<>>
    /\ item_error = None
    /\ uploads = <<>>
    /\ reported = <<>>
    /\ raised = FALSE
    /\ exit_code = -1

Next ==
    \/ Construct
    \/ FetchApple
    \/ FetchSpotify
    \/ ItemMatch
    \/ DlRequest
    \/ DlExhausted
    \/ ItemPublish
    \/ Summary
    \/ SyncExcept
    \/ MainExcept
    \/ MainExit

Spec == Init /\ [][Next]_vars

\* the single thread always takes its next step: every network call
\* returns, fails or times out (timeout=10 at line 99), and sleeps end
FairSpec == Spec /\ WF_vars(Next)

----------------------------------------------------------------------------
(* find_matching_playlist called on its own *)

\* mutant of MatchCall: the matched entry is removed from the mapping
MatchCallPop ==
    /\ pc \in {"match_call", "match_ret"}
    /\ LET id == find_matching_playlist(backend, fuzzy_match_threshold,
                                        playlist_name, spotify_dict)
           IsKept(entry) == entry.id # id
       IN  /\ spotify_playlist_id' = id
           /\ spotify_dict' = SelectSeq(spotify_dict, IsKept)
    /\ pc' = IF pc = "match_call" THEN "match_ret" ELSE "match_ret2"
    /\ UNCHANGED << env, backend, fuzzy_match_threshold, apple_playlists,
                    idx, playlist_name, success_count,
                    fail_count, artwork_url, max_retries, attempt, artwork,
                    trace, item_error, uploads, reported, raised, exit_code >>

\* one call, and then a second call with the same arguments
MatchCall ==
    /\ pc \in {"match_call", "match_ret"}
    /\ spotify_playlist_id' =
          find_matching_playlist(backend, fuzzy_match_threshold,
                                 playlist_name, spotify_dict)
    /\ pc' = IF pc = "match_call" THEN "match_ret" ELSE "match_ret2"
    /\ UNCHANGED << env, backend, fuzzy_match_threshold, apple_playlists,
                    spotify_dict, idx, playlist_name, success_count,
                    fail_count, artwork_url, max_retries, attempt, artwork,
                    trace, item_error, uploads, reported, raised, exit_code >>

InitMatch ==
    /\ pc = "match_call"
    /\ env = AppleEnv
    /\ backend \in Backends
    /\ fuzzy_match_threshold \in Thresholds
    /\ apple_playlists = <<>>
    /\ spotify_dict \in Dicts
    /\ idx = 0
    /\ playlist_name \in MatchNames
    /\ spotify_playlist_id = None
    /\ success_count = 0
    /\ fail_count = 0
    /\ artwork_url = None
    /\ max_retries = DefaultMaxRetries
    /\ attempt = 0
    /\ artwork = None
    /\ trace = <<>>
    /\ item_error = None
    /\ uploads = <<>>
    /\ reported = <<>>
    /\ raised = FALSE
    /\ exit_code = -1

NextMatch == MatchCall

SpecMatch == InitMatch /\ [][NextMatch]_vars

----------------------------------------------------------------------------
(* download_playlist_artwork called on its own *)

InitDownload ==
    /\ pc = "dl_loop"
    /\ env = AppleEnv
    /\ backend = "difflib"
    /\ fuzzy_match_threshold = DefaultThreshold
    /\ apple_playlists = <<>>
    /\ spotify_dict = <<>>
    /\ idx = 0
    /\ playlist_name = <<>>
    /\ spotify_playlist_id = None
    /\ success_count = 0
    /\ fail_count = 0
    /\ artwork_url \in Urls
    /\ max_retries \in 0..MaxRetries
    /\ attempt = 0
    /\ artwork = None
    /\ trace = <<>>
    /\ item_error = None
    /\ uploads = <<>>
    /\ reported = <<>>
    /\ raised = FALSE
    /\ exit_code = -1

NextDownload == DlRequest \/ DlExhausted

SpecDownload == InitDownload /\ [][NextDownload]_vars

----------------------------------------------------------------------------
(* Properties of find_matching_playlist (SpecMatch) *)

\* score of the k-th candidate of the mapping against the name of the call
Score(k) == ratio(backend, lower(playlist_name), lower(spotify_dict[k].name))

Cands == 1..Len(spotify_dict)

MaxScore == CHOOSE m \in {Score(k) : k \in Cands} : \A k \in Cands : Score(k) <= m

\* C1: for every name, mapping and threshold T in 0..100 the matcher returns
\* the id of a candidate with the maximum score if and only if that maximum
\* is >= T, and None if and only if no candidate scores >= T (so None for the
\* empty mapping).
C1_MatchIffThreshold ==
    pc = "match_ret" =>
        /\ (\E k \in Cands : Score(k) >= fuzzy_match_threshold)
              => \E k \in Cands : /\ spotify_playlist_id = spotify_dict[k].id
                                  /\ Score(k) = MaxScore
        /\ (spotify_playlist_id # None)
              => \E k \in Cands : /\ spotify_playlist_id = spotify_dict[k].id
                                  /\ Score(k) = MaxScore
                                  /\ Score(k) >= fuzzy_match_threshold
        /\ (spotify_playlist_id = None)
              <=> ~ \E k \in Cands : Score(k) >= fuzzy_match_threshold

\* the candidates that score the maximum, in the mapping's iteration order
TopCands == {k \in Cands : Score(k) = MaxScore}

FirstTop == CHOOSE k \in TopCands : \A j \in TopCands : k <= j

\* C17: when several candidates share the maximum score and that score is
\* >= the threshold, the matcher returns the id of the first of them in the
\* mapping's iteration order.
C17_FirstMaxWins ==
    pc = "match_ret" =>
        ((Cardinality(TopCands) >= 2 /\ MaxScore >= fuzzy_match_threshold)
            => spotify_playlist_id = spotify_dict[FirstTop].id)

----------------------------------------------------------------------------
(* Properties of download_playlist_artwork (SpecDownload) *)

IsRequest(e) == e.ev = "request"
IsSleep(e) == e.ev = "sleep"
IsTransient(e) == e.ev = "request" /\ e.res = "transient"

NumRequests == Len(SelectSeq(trace, IsRequest))
NumSleeps == Len(SelectSeq(trace, IsSleep))
NumTransient == Len(SelectSeq(trace, IsTransient))

AllTransient == \A k \in 1..Len(trace) : IsRequest(trace[k]) => trace[k].res = "transient"

\* C2: when every attempt fails with a transient failure the download makes
\* exactly max_retries requests, never more, and then returns None.
C2_ExactlyMaxRetries ==
    /\ NumRequests <= max_retries
    /\ (pc = "dl_ret" /\ AllTransient) => (NumRequests = max_retries /\ artwork = None)

C2_Witness ==
    /\ pc = "dl_ret"
    /\ max_retries = DefaultMaxRetries
    /\ AllTransient
    /\ NumRequests = DefaultMaxRetries
    /\ artwork = None

\* C3: a request that fails with a non-network (decode) error is the last
\* thing the download does: no request and no sleep follows it, and the
\* download has returned None, however many attempts were left.
C3_DecodeAborts ==
    \A k \in 1..Len(trace) :
        (IsRequest(trace[k]) /\ trace[k].res = "decode")
            => (k = Len(trace) /\ pc = "dl_ret" /\ artwork = None)

C3_Witness ==
    /\ pc = "dl_ret"
    /\ trace = <<RequestEv("decode")>>
    /\ max_retries = DefaultMaxRetries
    /\ attempt = 0
    /\ artwork = None

\* C10: the download returns the image at the first successful attempt: a
\* successful request is the last event of the call, comes after k < max_retries
\* transient failures as request number k + 1, and makes the call return the
\* image; None is returned only after max_retries transient failures or after
\* a decode error.
C10_FirstSuccess ==
    /\ \A k \in 1..Len(trace) :
          (IsRequest(trace[k]) /\ trace[k].res = "ok")
              => /\ k = Len(trace)
                 /\ pc = "dl_ret"
                 /\ artwork = "image"
                 /\ NumTransient < max_retries
                 /\ NumRequests = NumTransient + 1
    /\ (pc = "dl_ret" /\ artwork = "image")
          => (trace # <<>> /\ trace[Len(trace)] = RequestEv("ok"))
    /\ (pc = "dl_ret" /\ artwork = None)
          => \/ (AllTransient /\ NumTransient = max_retries)
             \/ (trace # <<>> /\ trace[Len(trace)] = RequestEv("decode"))

C10_Witness ==
    /\ pc = "dl_ret"
    /\ artwork = "image"
    /\ max_retries = DefaultMaxRetries
    /\ NumTransient = 2
    /\ NumRequests = 3
    /\ NumSleeps = 2

----------------------------------------------------------------------------
(* Properties of sync_artwork and __main__ (Spec) *)

\* C4: a playlist that fails (no match, missing artwork, failed download,
\* conversion or upload exception) is counted and the loop goes on with the
\* next one; once the loop has started nothing propagates out of
\* sync_artwork, and a completed run has counted every source playlist.
C4_Isolation ==
    /\ [](idx >= 1 => (pc \notin {"sync_except", "main_except"} /\ ~raised))
    /\ [](pc = "loop" => success_count + fail_count = idx - 1)
    /\ [](reported # <<>> => reported[1] + reported[2] = Len(apple_playlists))
    /\ [][fail_count' = fail_count + 1
            => (pc' = "loop" /\ idx' = idx + 1 /\ ~raised'
                /\ success_count' = success_count)]_vars

C4_Witness ==
    /\ pc = "returned"
    /\ Len(uploads) = 2
    /\ uploads[1].item = 1 /\ ~uploads[1].ok
    /\ uploads[2].item = 2 /\ uploads[2].ok
    /\ reported = <<1, 1>>

\* C5: when the matcher returns None for a source playlist, fail_count goes
\* up by exactly one, success_count stays, and the loop moves to the next
\* playlist without any download request or upload for this one.
C5_NoMatchSkips ==
    [][(pc = "loop" /\ idx <= Len(apple_playlists) /\ spotify_playlist_id' = None)
         => /\ fail_count' = fail_count + 1
            /\ success_count' = success_count
            /\ trace' = <<>>
            /\ uploads' = uploads
            /\ pc' = "loop"
            /\ idx' = idx + 1]_vars

C5_Witness ==
    /\ pc = "loop"
    /\ idx = 2
    /\ playlist_name = ZzzUnrelated
    /\ spotify_dict # <<>>
    /\ spotify_playlist_id = None
    /\ fail_count = 1
    /\ success_count = 0
    /\ trace = <<>>
    /\ uploads = <<>>

\* C6: when a matched playlist's download returned None (max_retries
\* transient failures or a decode error), fail_count goes up by exactly one
\* and the upload is not called for it.
C6_DownloadFailureCounted ==
    [][(pc = "dl_ret" /\ artwork = None)
         => /\ spotify_playlist_id # None
            /\ fail_count' = fail_count + 1
            /\ success_count' = success_count
            /\ uploads' = uploads
            /\ idx' = idx + 1]_vars

C6_Witness ==
    /\ pc = "loop"
    /\ idx = 2
    /\ spotify_playlist_id = "sp1"
    /\ artwork_url = "url1"
    /\ NumTransient = DefaultMaxRetries
    /\ artwork = None
    /\ fail_count = 1
    /\ uploads = <<>>

\* C7: when a listing fetch fails the run aborts at once: nothing has been
\* or will be matched, downloaded, uploaded or reported, and the exception
\* is re-raised to the caller of sync_artwork.
C7_ListingFailureAborts ==
    /\ []((pc = "sync_except" \/ raised)
            => /\ idx = 0
               /\ spotify_playlist_id = None
               /\ trace = <<>>
               /\ uploads = <<>>
               /\ reported = <<>>
               /\ success_count = 0
               /\ fail_count = 0)
    /\ [][pc = "sync_except" => (raised' /\ pc' = "main_except")]_vars

C7_Witness ==
    /\ pc = "main_except"
    /\ raised
    /\ apple_playlists # <<>>
    /\ spotify_dict = <<>>
    /\ idx = 0

\* C8: the process ends with a non-zero exit code when a fatal failure
\* (initialization or listing fetch) occurred and with zero when the run
\* completed.
C8_ExitCode ==
    pc = "exit" => (exit_code = 0 <=> ~raised)

\* C9: a matched, downloaded and uploaded playlist adds exactly one to
\* success_count and nothing to fail_count; with the source listing
\* [("Road Trip", url1)] and the target {"road trip": "sp1"} at threshold 85
\* the match is "sp1", and when download and upload succeed the artwork is
\* uploaded to "sp1" and the run reports success 1, failed 0.
Scenario1 ==
    /\ apple_playlists = <<[name |-> RoadTrip, artwork_url |-> "url1"]>>
    /\ spotify_dict = Items(<<road_trip>>)
    /\ fuzzy_match_threshold = 85

C9_EndToEndSuccess ==
    /\ []((Scenario1 /\ (pc \in {"dl_loop", "dl_ret"} \/ idx = 2))
            => spotify_playlist_id = "sp1")
    /\ []((Scenario1 /\ pc = "returned" /\ artwork = "image" /\ item_error = None)
            => /\ uploads = <<[item |-> 1, id |-> "sp1", ok |-> TRUE]>>
               /\ reported = <<1, 0>>)
    /\ [][(pc = "dl_ret" /\ artwork = "image" /\ item_error' = None)
            => /\ success_count' = success_count + 1
               /\ fail_count' = fail_count
               /\ uploads' = Append(uploads, [item |-> idx,
                                              id |-> spotify_playlist_id,
                                              ok |-> TRUE])]_vars

C9_Witness ==
    /\ Scenario1
    /\ pc = "returned"
    /\ uploads = <<[item |-> 1, id |-> "sp1", ok |-> TRUE]>>
    /\ reported = <<1, 0>>

----------------------------------------------------------------------------
(* Case-insensitivity of the matcher (SpecMatch) *)

\* letters of the model and their other case
CasePairs == { <<"a", "A">>, <<"b", "B">>, <<"r", "R">>, <<"t", "T">>,
               <<"u", "U">>, <<"z", "Z">> }

SameLetter(c, d) == c = d \/ <<c, d>> \in CasePairs \/ <<d, c>> \in CasePairs

\* t is s with the case of some letters changed
CaseVariant(s, t) ==
    /\ Len(s) = Len(t)
    /\ \A k \in 1..Len(s) : SameLetter(s[k], t[k])

\* d, and the mappings that differ from d in the case of one candidate name
DictCaseVariants(d) ==
    {d} \cup
    { [d EXCEPT ![k].name = n] : <<k, n>> \in
        { x \in (1..Len(d)) \X MatchNames :
            /\ CaseVariant(d[x[1]].name, x[2])
            /\ \A l \in 1..Len(d) : d[l].name # x[2] } }

\* the id returned is the same for every change of case of the name and of
\* the candidate names
CaseInsensitive ==
    pc = "match_ret" =>
        \A n \in MatchNames : CaseVariant(playlist_name, n) =>
            \A e \in DictCaseVariants(spotify_dict) :
                find_matching_playlist(backend, fuzzy_match_threshold, n, e)
                    = spotify_playlist_id

SpecExample ==
    /\ pc = "match_ret"
    /\ playlist_name = SpaceRoadTrip
    /\ spotify_dict = Items(<<road_trip>>)

\* C11 as stated: changing the case of the name or of a candidate name never
\* changes the id returned, and " Road Trip" against "road trip" scores 100.
C11_AsStated ==
    /\ CaseInsensitive
    /\ SpecExample => Score(1) = 100

\* C11 amended: changing the case of the name or of a candidate name never
\* changes the id returned; "Road Trip" against "road trip" scores 100, and
\* " Road Trip" (leading space) against "road trip" scores 95, which still
\* matches at every threshold up to 95.
C11_CaseInsensitive ==
    /\ CaseInsensitive
    /\ SpecExample
          => /\ Score(1) = 95
             /\ spotify_playlist_id
                   = IF fuzzy_match_threshold <= 95 THEN "sp1" ELSE None
    /\ (pc = "match_ret" /\ playlist_name = RoadTrip
           /\ spotify_dict = Items(<<road_trip>>))
          => (Score(1) = 100 /\ spotify_playlist_id = "sp1")

C11_Witness ==
    /\ pc = "match_ret"
    /\ playlist_name = RoadTrip
    /\ spotify_dict = Items(<<road_trip>>)
    /\ fuzzy_match_threshold = 100
    /\ spotify_playlist_id = "sp1"

----------------------------------------------------------------------------
(* Initialization (Spec) *)

\* C13: a failing construction raises to the caller and nothing else happens
\* in the run: from "main" the program either has a constructed object, with
\* every Apple credential set, or is in the caller's except with the
\* exception raised; from there it only exits, and no listing is fetched and
\* nothing is matched, downloaded or uploaded.  With an Apple credential
\* missing the construction never succeeds.
C13_InitFailureFatal ==
    /\ [](~(AppleEnv \subseteq env)
            => /\ pc \in {"main", "main_except", "exit"}
               /\ (pc # "main" => raised)
               /\ apple_playlists = <<>>
               /\ spotify_dict = <<>>
               /\ idx = 0
               /\ trace = <<>>
               /\ uploads = <<>>
               /\ reported = <<>>)
    /\ [][pc = "main"
            => \/ (pc' = "constructed" /\ ~raised' /\ AppleEnv \subseteq env)
               \/ (pc' = "main_except" /\ raised')]_vars
    /\ [][pc = "main_except"
            => (pc' = "exit" /\ apple_playlists' = apple_playlists
                /\ spotify_dict' = spotify_dict /\ idx' = idx
                /\ trace' = trace /\ uploads' = uploads)]_vars
    /\ [][pc # "exit"]_vars

C13_Witness ==
    /\ pc = "exit"
    /\ raised
    /\ env = {"APPLE_KEY_ID", "APPLE_TEAM_ID"}
    /\ apple_playlists = <<>>
    /\ uploads = <<>>

----------------------------------------------------------------------------
(* Missing artwork URL (Spec) *)

\* C14: a matched playlist without an artwork URL (the key is missing, or
\* the URL is None and every request fails) is counted as one failure, is
\* never uploaded, and the loop goes on with the next playlist.
C14_NoArtworkUrl ==
    /\ [][(pc = "loop" /\ idx <= Len(apple_playlists)
             /\ spotify_playlist_id' # None
             /\ apple_playlists[idx].artwork_url = "KeyError")
            => (/\ fail_count' = fail_count + 1
                /\ success_count' = success_count
                /\ uploads' = uploads
                /\ trace' = <<>>
                /\ pc' = "loop"
                /\ idx' = idx + 1)]_vars
    /\ []((pc \in {"dl_loop", "dl_ret"} /\ artwork_url = None)
            => (AllTransient /\ artwork = None))
    /\ [][(pc = "dl_ret" /\ artwork_url = None)
            => (/\ fail_count' = fail_count + 1
                /\ success_count' = success_count
                /\ uploads' = uploads
                /\ pc' = "loop"
                /\ idx' = idx + 1)]_vars

C14_Witness ==
    /\ pc = "returned"
    /\ Len(apple_playlists) = 2
    /\ apple_playlists[1].artwork_url = "KeyError"
    /\ apple_playlists[2].artwork_url = None
    /\ spotify_playlist_id = "sp1"
    /\ reported = <<0, 2>>
    /\ uploads = <<>>

----------------------------------------------------------------------------
(* Termination (FairSpec) *)

\* number of requests among the first p events: the request at position p is
\* attempt number RequestsUpTo(p) - 1
RequestsUpTo(p) == Len(SelectSeq(SubSeq(trace, 1, p), IsRequest))

Sleeps == SelectSeq(trace, IsSleep)

\* C16: a wait follows the transient failure of attempt a exactly when
\* a < max_retries - 1, and it lasts 2^a; nothing follows the last allowed
\* attempt; a download whose attempts all fail transiently has made
\* max_retries - 1 waits when it returns; the delays never decrease.
C16_BackoffSchedule ==
    /\ \A p \in 1..Len(trace) :
          IsSleep(trace[p])
              => /\ p > 1
                 /\ IsTransient(trace[p - 1])
                 /\ RequestsUpTo(p) - 1 < max_retries - 1
                 /\ trace[p].secs = Pow2(RequestsUpTo(p) - 1)
    /\ \A p \in 1..Len(trace) :
          (IsTransient(trace[p]) /\ RequestsUpTo(p) - 1 < max_retries - 1)
              => (p < Len(trace) /\ IsSleep(trace[p + 1]))
    /\ \A p \in 1..Len(trace) :
          (IsRequest(trace[p]) /\ RequestsUpTo(p) - 1 = max_retries - 1)
              => p = Len(trace)
    /\ (pc = "dl_ret" /\ AllTransient /\ max_retries >= 1)
          => NumSleeps = max_retries - 1
    /\ \A p \in 1..Len(Sleeps) : \A q \in p..Len(Sleeps) :
          Sleeps[p].secs <= Sleeps[q].secs

C16_Witness ==
    /\ pc = "dl_ret"
    /\ max_retries = 4
    /\ AllTransient
    /\ Sleeps = <<SleepEv(1), SleepEv(2), SleepEv(4)>>

----------------------------------------------------------------------------
(* Order of processing (Spec) *)

InSync == pc = "loop" \/ pc = "dl_loop" \/ pc = "dl_ret"

\* C18: playlists are processed one at a time in the order of the source
\* listing: the position only moves forward, by one; the download works on
\* the playlist at the current position; a playlist is finished with its own
\* name matched and its own upload, and uploads follow the listing order;
\* nothing is processed before both listings are fetched, and the listings
\* do not change afterwards.
C18_Sequential ==
    /\ [][idx' = idx \/ idx' = idx + 1]_vars
    /\ []((pc = "dl_loop" \/ pc = "dl_ret")
            => /\ idx \in 1..Len(apple_playlists)
               /\ playlist_name = apple_playlists[idx].name
               /\ artwork_url = apple_playlists[idx].artwork_url)
    /\ [][(idx >= 1 /\ idx' = idx + 1)
            => /\ playlist_name' = apple_playlists[idx].name
               /\ \A k \in 1..Len(uploads') : uploads'[k].item <= idx]_vars
    /\ [][uploads' # uploads
            => /\ pc = "dl_ret"
               /\ Len(uploads') = Len(uploads) + 1
               /\ uploads'[Len(uploads')].item = idx
               /\ \A k \in 1..Len(uploads) : uploads[k].item < idx]_vars
    /\ [][trace' # trace => (pc = "dl_loop" \/ (pc = "loop" /\ trace' = <<>>))]_vars
    /\ []((pc = "main" \/ pc = "constructed" \/ pc = "fetch_spotify")
            => (idx = 0 /\ playlist_name = <<>> /\ trace = <<>> /\ uploads = <<>>))
    /\ [][InSync => (apple_playlists' = apple_playlists /\ spotify_dict' = spotify_dict)]_vars

C18_Witness ==
    /\ pc = "loop"
    /\ idx = 3
    /\ apple_playlists[1].name = ZzzUnrelated
    /\ apple_playlists[2].name = RoadTrip
    /\ Len(uploads) = 1
    /\ uploads[1].item = 2

\* C19: both counters are 0 when the loop starts and never decrease; a step
\* that finishes a playlist adds one to exactly one of them and no other step
\* changes them, so success_count + fail_count is the number of playlists
\* processed so far, and the sum reported by a completed run is the length
\* of the source listing.
C19_CounterInvariant ==
    /\ [][(pc = "fetch_spotify" /\ pc' = "loop")
            => (success_count' = 0 /\ fail_count' = 0)]_vars
    /\ [][success_count' >= success_count /\ fail_count' >= fail_count]_vars
    /\ [][(idx >= 1 /\ idx' = idx + 1)
            => \/ (success_count' = success_count + 1 /\ fail_count' = fail_count)
               \/ (success_count' = success_count /\ fail_count' = fail_count + 1)]_vars
    /\ [][(idx >= 1 /\ idx' = idx)
            => (success_count' = success_count /\ fail_count' = fail_count)]_vars
    /\ [](InSync => success_count + fail_count = idx - 1)
    /\ []((pc = "returned" /\ reported # <<>>)
            => reported[1] + reported[2] = Len(apple_playlists))

C19_Witness ==
    /\ pc = "loop"
    /\ idx = 3
    /\ success_count = 1
    /\ fail_count = 1
    /\ item_error = "upload"

IsOkUpload(u) == u.ok

\* C20: at most one upload is made per source playlist; an upload is made
\* only when the download of the current playlist has returned an image and
\* the matcher has returned an id for its name, and it targets that id;
\* success_count is the number of uploads that returned without error, and
\* an upload that raises adds one to fail_count and nothing to
\* success_count.
C20_UploadSafety ==
    /\ [](\A j \in 1..Len(uploads) : \A k \in 1..Len(uploads) :
              j < k => uploads[j].item < uploads[k].item)
    /\ [][uploads' # uploads
            => /\ pc = "dl_ret"
               /\ artwork = "image"
               /\ Len(trace) >= 1
               /\ trace[Len(trace)] = RequestEv("ok")
               /\ spotify_playlist_id # None
               /\ spotify_playlist_id =
                     find_matching_playlist(backend, fuzzy_match_threshold,
                                            apple_playlists[idx].name,
                                            spotify_dict)
               /\ uploads' = Append(uploads, uploads'[Len(uploads')])
               /\ uploads'[Len(uploads')].item = idx
               /\ uploads'[Len(uploads')].id = spotify_playlist_id]_vars
    /\ [](success_count = Len(SelectSeq(uploads, IsOkUpload)))
    /\ [][(uploads' # uploads /\ ~uploads'[Len(uploads')].ok)
            => (fail_count' = fail_count + 1 /\ success_count' = success_count)]_vars
    /\ [][success_count' # success_count
            => (uploads' # uploads /\ uploads'[Len(uploads')].ok)]_vars

C20_Witness ==
    /\ pc = "loop"
    /\ Len(uploads) = 2
    /\ uploads[1].ok
    /\ ~uploads[2].ok
    /\ uploads[2].id = "sp1"
    /\ success_count = 1
    /\ fail_count = 1

\* C15: a run of sync_artwork always ends, either having processed every
\* source playlist and reported the counts, or with the exception of a
\* failed listing fetch raised before the first playlist; there is no other
\* way out of sync_artwork.
C15_Terminates ==
    /\ (pc = "constructed") ~> (pc = "returned" \/ pc = "main_except")
    /\ [](pc = "returned"
            => /\ reported = <<success_count, fail_count>>
               /\ success_count + fail_count = Len(apple_playlists)
               /\ idx = Len(apple_playlists) + 1)
    /\ [][(pc # "main" /\ pc' = "main_except")
            => (pc = "sync_except" /\ idx = 0 /\ reported = <<>>)]_vars

C15_Witness ==
    /\ pc = "returned"
    /\ Len(apple_playlists) = 2
    /\ reported = <<1, 1>>

====
